---- MODULE Spec2Model ----
(***************************************************************************)
(* Two-armed Beta-Bernoulli bandit notebook: the node enumerator f, the    *)
(* objective minimize_func, the backward step Previous_Nodes_Func and the  *)
(* driver Bernoulli_Bandit.                                                *)
(*                                                                         *)
(* A table (pandas DataFrame) is a sequence of rows; a row is a sequence   *)
(* of its columns: columns 0..3 of the source are positions 1..4 (the node *)
(* a1,b1,a2,b2), column 4 is position 5 (the value) and column 5 is        *)
(* position 6 (the choice).  Floating point values are modelled as exact   *)
(* rationals <<numerator, denominator>> in lowest terms; "/" is true       *)
(* division, as in the interpreter that produced the recorded outputs.     *)
(***************************************************************************)
EXTENDS Integers, Sequences, FiniteSets

\* ------------------------------------------------------------------ bounds
\* prior counts are drawn from 1..MaxCount
MaxCount == 2
\* Bernoulli_Bandit is called with N in 0..MaxN
MaxN == 4
\* f is called on its own with n in 0..MaxTrial
MaxTrial == 10

\* --------------------------------------------------------- exact rationals
Abs(x) == IF x < 0 THEN -x ELSE x

RECURSIVE GCD(_, _)
GCD(x, y) == IF y = 0 THEN x ELSE GCD(y, x % y)

\* the rational n/d (d > 0) in lowest terms
Frac(n, d) == LET g == GCD(Abs(n), d) IN <<n \div g, d \div g>>

RInt(k) == <<k, 1>>
RAdd(x, y) == Frac(x[1] * y[2] + y[1] * x[2], x[2] * y[2])
RMul(x, y) == Frac(x[1] * y[1], x[2] * y[2])
RNeg(x) == <<-x[1], x[2]>>
RLeq(x, y) == x[1] * y[2] <= y[1] * x[2]
RLt(x, y) == x[1] * y[2] < y[1] * x[2]

\* ------------------------------------------------------------ enumerator f
\* pd.DataFrame.drop_duplicates: keeps the first occurrence of every row
FirstOccurrences(T) ==
    LET Indexed == [k \in 1..Len(T) |-> <<k, T[k]>>]
        IsFirst(e) == \A m \in 1..(e[1] - 1) : T[m] # e[2]
        Kept == SelectSeq(Indexed, IsFirst)
    IN  [k \in 1..Len(Kept) |-> Kept[k][2]]

drop_duplicates_keepall(T) == T

drop_duplicates(T) == FirstOccurrences(T)

\* Node + np.array([..1..]) : the node with coordinate e (1..4) incremented
Plus_by2(Node, e) == [k \in 1..4 |-> IF k = e THEN Node[k] + 2 ELSE Node[k]]

Plus(Node, e) == [k \in 1..4 |-> IF k = e THEN Node[k] + 1 ELSE Node[k]]

\* np.array([A, B, C, D]) of one node: its four successors, in this order
Children_noD(Node) == <<Plus(Node, 1), Plus(Node, 2), Plus(Node, 3)>>

Children(Node) == <<Plus(Node, 1), Plus(Node, 2), Plus(Node, 3), Plus(Node, 4)>>

\* the inner loop over i: Nodes2 = concat of the children of every row,
\* the children of row 1 first, then those of row 2, ...
ConcatChildren(T) ==
    LET w == Len(Children(<<0, 0, 0, 0>>))
    IN  [k \in 1..(w * Len(T)) |->
           Children(T[((k - 1) \div w) + 1])[((k - 1) % w) + 1]]

\* one iteration of "for j in range(2,n)"
ExpandLayer(T) == drop_duplicates(ConcatChildren(T))

\* the iterations j, j+1, .., n-1 of the loop
RECURSIVE FLoop(_, _, _)
FLoop(T, j, n) == IF j >= n THEN T ELSE FLoop(ExpandLayer(T), j + 1, n)

f(a, b, c, d, n) ==
    IF n = 1 THEN << <<a, b, c, d>> >>
    ELSE FLoop(Children(<<a, b, c, d>>), 2, n)

\* -------------------------------------------------------- backward step
\* minimize_func(p, E1, E2, E3, E4), p a rational in [0,1]
minimize_func_noreward2(p, E1, E2, E3, E4) ==
    RNeg(RAdd(RAdd(RMul(p, RAdd(RInt(1), E1)), RMul(p, RAdd(RInt(0), E2))),
              RAdd(RMul(RAdd(RInt(1), RNeg(p)), RAdd(RInt(0), E3)),
                   RMul(RAdd(RInt(1), RNeg(p)), RAdd(RInt(0), E4)))))

minimize_func(p, E1, E2, E3, E4) ==
    RNeg(RAdd(RAdd(RMul(p, RAdd(RInt(1), E1)), RMul(p, RAdd(RInt(0), E2))),
              RAdd(RMul(RAdd(RInt(1), RNeg(p)), RAdd(RInt(1), E3)),
                   RMul(RAdd(RInt(1), RNeg(p)), RAdd(RInt(0), E4)))))

\* Frame.insert(col, col, 0): every row gets one more column holding 0.
\* Column 4 (the value) holds rationals, column 5 (the choice) integers.
InsertValueCol(T) == [k \in 1..Len(T) |-> Append(T[k], RInt(0))]
InsertChoiceCol(T) == [k \in 1..Len(T) |-> Append(T[k], 0)]

\* Previous_Nodes.ix[j,0:3]
NodeOf(r) == SubSeq(r, 1, 4)

\* np.alltrue(Final_Nodes.ix[:,0:3] == X, axis = 1) for one row
RowMatches_any(r, X) == \E k \in 1..4 : r[k] = X[k]

RowMatches(r, X) == \A k \in 1..4 : r[k] = X[k]

\* Final_Nodes.values[mask, 4]: the values of the matching rows, an array
Lookup_default(T, X) ==
    LET Hit(r) == RowMatches(r, X)
        Rows == SelectSeq(T, Hit)
    IN  IF Len(Rows) = 0 THEN <<RInt(0)>>
        ELSE [k \in 1..Len(Rows) |-> Rows[k][5]]

Lookup(T, X) ==
    LET Hit(r) == RowMatches(r, X)
        Rows == SelectSeq(T, Hit)
    IN  [k \in 1..Len(Rows) |-> Rows[k][5]]

\* E1..E4 of a node: E(T, Node, 1) is E1 (A), .., E(T, Node, 4) is E4 (D)
E(T, Node, e) == Lookup(T, Plus(Node, e))

\* every one of E1..E4 is an array of exactly one value
SingleValued(T, Node) == \A e \in 1..4 : Len(E(T, Node, e)) = 1

\* minimize_func on the (single) values found for a node
Objective(T, Node, p) ==
    minimize_func(p, E(T, Node, 1)[1], E(T, Node, 2)[1],
                     E(T, Node, 3)[1], E(T, Node, 4)[1])

\* np.round(minimize_scalar(minimize_func, bounded on [0,1]).x): the
\* objective is linear in p, so the bounded minimiser ends next to the
\* endpoint with the smaller objective and rounds to it; when the two
\* endpoints are equal the objective is flat up to rounding error and the
\* optimiser may end at either side.
Choices_any(T, Node) == {0, 1}

Choices_larger(T, Node) ==
    LET at1 == Objective(T, Node, RInt(1))
        at0 == Objective(T, Node, RInt(0))
    IN  IF RLt(at1, at0) THEN {0}
        ELSE IF RLt(at0, at1) THEN {1}
        ELSE {0, 1}

Choices(T, Node) ==
    LET at1 == Objective(T, Node, RInt(1))
        at0 == Objective(T, Node, RInt(0))
    IN  IF RLt(at1, at0) THEN {1}
        ELSE IF RLt(at0, at1) THEN {0}
        ELSE {0, 1}

\* -minimize_func(choice, E1, E2, E3, E4)
NodeValue_unnegated(T, Node, choice) == Objective(T, Node, RInt(choice))

NodeValue(T, Node, choice) == RNeg(Objective(T, Node, RInt(choice)))

\* ------------------------------------------------------- terminal values
\* Python's max(x, y): y when x < y, else x
PyMax_min(x, y) == IF RLt(x, y) THEN x ELSE y

PyMax(x, y) == IF RLt(x, y) THEN y ELSE x

\* max(E_1, E_2) of one row of Final_Nodes
GreedyValue(r) ==
    LET E_1 == Frac(r[1], r[1] + r[2])
        E_2 == Frac(r[3], r[3] + r[4])
    IN  PyMax(E_1, E_2)

\* range(1,N)[::-1] starts at N-1
FirstJ_N(n) == n

FirstJ(n) == n - 1

\* ------------------------------------------------------------------ state
VARIABLES
    call,            \* which function the notebook cell calls: "f" or "Bernoulli_Bandit"
    a1, b1, a2, b2,  \* the arguments (a, b, c, d of f)
    N,               \* the last argument (n of f)
    pc,              \* position in the called function
    Nodes,           \* f: the table Nodes
    fj,              \* f: the loop variable j
    Final_Nodes,     \* Bernoulli_Bandit: the terminal table
    i,               \* Bernoulli_Bandit: the loop variable i (rows done)
    Previous_Node,   \* Bernoulli_Bandit: the table passed to the next step
    j,               \* Bernoulli_Bandit: the loop variable j
    Previous_Nodes,  \* Previous_Nodes_Func: the table being filled
    pj               \* Previous_Nodes_Func: the loop variable j (rows done)

vars == <<call, a1, b1, a2, b2, N, pc, Nodes, fj, Final_Nodes, i,
          Previous_Node, j, Previous_Nodes, pj>>

args == <<call, a1, b1, a2, b2, N>>
fvars == <<Nodes, fj>>
bbvars == <<Final_Nodes, i, Previous_Node, j>>
pnfvars == <<Previous_Nodes, pj>>

Counts == 1..MaxCount

Init ==
    /\ call \in {"f", "Bernoulli_Bandit"}
    /\ a1 \in Counts /\ b1 \in Counts /\ a2 \in Counts /\ b2 \in Counts
    /\ N \in 0..(IF call = "f" THEN MaxTrial ELSE MaxN)
    /\ pc = "enter"
    /\ Nodes = <<>> /\ fj = 0
    /\ Final_Nodes = <<>> /\ i = 0
    /\ Previous_Node = <<>> /\ j = 0
    /\ Previous_Nodes = <<>> /\ pj = 0

\* ------------------------------------------------------------- f, stepwise
\* if n == 1: return the one-row table
FBase ==
    /\ call = "f" /\ pc = "enter" /\ N = 1
    /\ Nodes' = << <<a1, b1, a2, b2>> >>
    /\ pc' = "f_return"
    /\ UNCHANGED <<args, fj, bbvars, pnfvars>>

\* Nodes = DataFrame([A, B, C, D]) and entry of the loop
FFirst ==
    /\ call = "f" /\ pc = "enter" /\ N # 1
    /\ Nodes' = Children(<<a1, b1, a2, b2>>)
    /\ fj' = 2
    /\ pc' = "f_loop"
    /\ UNCHANGED <<args, bbvars, pnfvars>>

\* one iteration of for j in range(2,n)
FIter ==
    /\ call = "f" /\ pc = "f_loop" /\ fj < N
    /\ Nodes' = ExpandLayer(Nodes)
    /\ fj' = fj + 1
    /\ UNCHANGED <<args, pc, bbvars, pnfvars>>

\* return Nodes
FReturn ==
    /\ call = "f" /\ pc = "f_loop" /\ fj >= N
    /\ pc' = "f_return"
    /\ UNCHANGED <<args, fvars, bbvars, pnfvars>>

\* ------------------------------------------------------- Bernoulli_Bandit
\* Final_Nodes = f(a1,b1,a2,b2,N); Final_Nodes.insert(4, 4, 0)
BBEnter ==
    /\ call = "Bernoulli_Bandit" /\ pc = "enter"
    /\ Final_Nodes' = InsertValueCol(f(a1, b1, a2, b2, N))
    /\ i' = 0
    /\ pc' = "bb_terminal"
    /\ UNCHANGED <<args, fvars, Previous_Node, j, pnfvars>>

\* one iteration of the loop over the rows of Final_Nodes
BBTerminal ==
    /\ pc = "bb_terminal" /\ i < Len(Final_Nodes)
    /\ Final_Nodes' = [Final_Nodes EXCEPT ![i + 1][5] = GreedyValue(Final_Nodes[i + 1])]
    /\ i' = i + 1
    /\ UNCHANGED <<args, pc, fvars, Previous_Node, j, pnfvars>>

\* Previous_Node = Final_Nodes and entry of the backward loop
BBAlias ==
    /\ pc = "bb_terminal" /\ i = Len(Final_Nodes)
    /\ Previous_Node' = Final_Nodes
    /\ j' = FirstJ(N)
    /\ pc' = "bb_loop"
    /\ UNCHANGED <<args, fvars, Final_Nodes, i, pnfvars>>

\* the call Previous_Nodes_Func(a1, b1, a2, b2, j, Previous_Node): its
\* first three statements
PNFEnter ==
    /\ pc = "bb_loop" /\ j >= 1
    /\ Previous_Nodes' = InsertChoiceCol(InsertValueCol(f(a1, b1, a2, b2, j)))
    /\ pj' = 0
    /\ pc' = "pnf_loop"
    /\ UNCHANGED <<args, fvars, bbvars>>

\* one iteration of the loop over the rows of Previous_Nodes, reading the
\* table passed in as Final_Nodes (the caller's Previous_Node)
PNFRow_inplace ==
    /\ pc = "pnf_loop" /\ pj < Len(Previous_Nodes)
    /\ LET Node == NodeOf(Previous_Nodes[pj + 1]) IN
         IF SingleValued(Previous_Node, Node)
         THEN \E choice \in Choices(Previous_Node, Node) :
                /\ Previous_Nodes' =
                     [Previous_Nodes EXCEPT
                        ![pj + 1][5] = NodeValue(Previous_Node, Node, choice),
                        ![pj + 1][6] = choice]
                /\ Previous_Node' =
                     [Previous_Node EXCEPT
                        ![1][5] = NodeValue(Previous_Node, Node, choice)]
                /\ pj' = pj + 1
                /\ pc' = pc
         ELSE /\ pc' = "pnf_no_single_value"
              /\ UNCHANGED <<pnfvars, Previous_Node>>
    /\ UNCHANGED <<args, fvars, Final_Nodes, i, j>>

PNFRow ==
    /\ pc = "pnf_loop" /\ pj < Len(Previous_Nodes)
    /\ LET Node == NodeOf(Previous_Nodes[pj + 1]) IN
         IF SingleValued(Previous_Node, Node)
         THEN \E choice \in Choices(Previous_Node, Node) :
                /\ Previous_Nodes' =
                     [Previous_Nodes EXCEPT
                        ![pj + 1][5] = NodeValue(Previous_Node, Node, choice),
                        ![pj + 1][6] = choice]
                /\ pj' = pj + 1
                /\ pc' = pc
         ELSE \* a selection that is empty or holds several values: the
              \* arithmetic on it is not a value of the table.  With an
              \* empty E the objective broadcasts to an empty array, and
              \* Previous_Nodes.ix[j,4] = <empty array> is refused by the
              \* data frame (ValueError: one key, no value), so the call
              \* ends here with nothing written for the row
              /\ pc' = "pnf_no_single_value"
              /\ UNCHANGED pnfvars
    /\ UNCHANGED <<args, fvars, bbvars>>

\* return(Previous_Nodes), assigned to Previous_Node; next j
PNFReturn_skip ==
    /\ pc = "pnf_loop" /\ pj = Len(Previous_Nodes)
    /\ Previous_Node' = Previous_Nodes
    /\ j' = j - 2
    /\ pc' = "bb_loop"
    /\ UNCHANGED <<args, fvars, Final_Nodes, i, pnfvars>>

PNFReturn ==
    /\ pc = "pnf_loop" /\ pj = Len(Previous_Nodes)
    /\ Previous_Node' = Previous_Nodes
    /\ j' = j - 1
    /\ pc' = "bb_loop"
    /\ UNCHANGED <<args, fvars, Final_Nodes, i, pnfvars>>

\* return(Previous_Node)
BBReturn ==
    /\ pc = "bb_loop" /\ j < 1
    /\ pc' = "done"
    /\ UNCHANGED <<args, fvars, bbvars, pnfvars>>

Next ==
    \/ FBase \/ FFirst \/ FIter \/ FReturn
    \/ BBEnter \/ BBTerminal \/ BBAlias
    \/ PNFEnter \/ PNFRow \/ PNFReturn \/ BBReturn

Spec == Init /\ [][Next]_vars

\* ------------------------------------------ the functions as operators
\* the loop over the rows of Final_Nodes, run to its end
TerminalTable(T) ==
    LET filled == [k \in 1..Len(T) |-> [T[k] EXCEPT ![5] = GreedyValue(T[k])]]
    IN  SubSeq(filled, 1, Len(T))

\* Previous_Nodes_Func run to its end (on a tie the optimiser's choice is
\* one member of Choices)
Previous_Nodes_Func(a, b, c, d, n, Final) ==
    LET P == InsertChoiceCol(InsertValueCol(f(a, b, c, d, n)))
        filled == [k \in 1..Len(P) |->
                     LET choice == CHOOSE x \in Choices(Final, NodeOf(P[k])) : TRUE
                     IN  [P[k] EXCEPT ![5] = NodeValue(Final, NodeOf(P[k]), choice),
                                      ![6] = choice]]
    IN  SubSeq(filled, 1, Len(P))

\* for j in range(1,N)[::-1], from j down to 1
RECURSIVE BackwardLoop(_, _, _, _, _, _)
BackwardLoop(a, b, c, d, jj, T) ==
    IF jj < 1 THEN T
    ELSE BackwardLoop(a, b, c, d, jj - 1, Previous_Nodes_Func(a, b, c, d, jj, T))

\* the same loop stopped before step lo: the table Previous_Node holds when
\* the loop variable has come down to lo - 1
RECURSIVE BackwardLoopTo(_, _, _, _, _, _, _)
BackwardLoopTo(a, b, c, d, jj, lo, T) ==
    IF jj < lo THEN T
    ELSE BackwardLoopTo(a, b, c, d, jj - 1, lo,
                        Previous_Nodes_Func(a, b, c, d, jj, T))

Bernoulli_Bandit(a, b, c, d, n) ==
    BackwardLoop(a, b, c, d, FirstJ(n),
                 TerminalTable(InsertValueCol(f(a, b, c, d, n))))

\* ------------------------- Previous_Nodes_Func called on a table directly
\* a table without its k-th row (k = 0: the table itself)
WithoutRow(T, k) ==
    IF k = 0 THEN T ELSE SubSeq(T, 1, k - 1) \o SubSeq(T, k + 1, Len(T))

\* the next layer with its greedy values, whole or with one row missing
ArgTables(a, b, c, d, n) ==
    LET T == TerminalTable(InsertValueCol(f(a, b, c, d, n + 1)))
    IN  {WithoutRow(T, k) : k \in 0..Len(T)}

\* the arguments of a direct call Previous_Nodes_Func(a1, b1, a2, b2, N,
\* Final_Nodes): Final_Nodes is the next layer with its greedy values, whole
\* or with one row missing
InitPNF ==
    /\ call = "Previous_Nodes_Func"
    /\ a1 \in Counts /\ b1 \in Counts /\ a2 \in Counts /\ b2 \in Counts
    /\ N \in 1..(MaxN - 1)
    /\ pc = "enter"
    /\ Previous_Node \in ArgTables(a1, b1, a2, b2, N)
    /\ Nodes = <<>> /\ fj = 0
    /\ Final_Nodes = <<>> /\ i = 0 /\ j = N
    /\ Previous_Nodes = <<>> /\ pj = 0

\* the first three statements of Previous_Nodes_Func
PNFCall ==
    /\ call = "Previous_Nodes_Func" /\ pc = "enter"
    /\ Previous_Nodes' = InsertChoiceCol(InsertValueCol(f(a1, b1, a2, b2, N)))
    /\ pj' = 0
    /\ pc' = "pnf_loop"
    /\ UNCHANGED <<args, fvars, bbvars>>

\* return(Previous_Nodes) to the caller
PNFCallReturn ==
    /\ call = "Previous_Nodes_Func"
    /\ pc = "pnf_loop" /\ pj = Len(Previous_Nodes)
    /\ pc' = "pnf_return"
    /\ UNCHANGED <<args, fvars, bbvars, pnfvars>>

NextPNF == PNFCall \/ PNFRow \/ PNFCallReturn

SpecPNF == InitPNF /\ [][NextPNF]_vars

\* ------------------------------------------------- vocabulary of the claims
\* the binomial coefficient C(k+3, 3)
Choose3(k) == ((k + 1) * (k + 2) * (k + 3)) \div 6

\* the rows of a table as a set of nodes
NodeSet(T) == {NodeOf(T[k]) : k \in 1..Len(T)}

NoDuplicateNodes(T) ==
    \A k, m \in 1..Len(T) : NodeOf(T[k]) = NodeOf(T[m]) => k = m

\* all (a+x1, b+x2, c+x3, d+x4) with x1+x2+x3+x4 = k
Compositions(a, b, c, d, k) ==
    {<<a + x[1], b + x[2], c + x[3], d + x[4]>> :
        x \in {y \in [1..4 -> 0..k] : y[1] + y[2] + y[3] + y[4] = k}}

\* the node with the arm labels swapped
Swap(Node) == <<Node[3], Node[4], Node[1], Node[2]>>

\* posterior mean of arm 1 and arm 2 of a node
Mean(Node, arm) ==
    IF arm = 1 THEN Frac(Node[1], Node[1] + Node[2])
    ELSE Frac(Node[3], Node[3] + Node[4])

RMax(x, y) == IF RLeq(x, y) THEN y ELSE x

\* x is the larger of y and z
IsMaxOf(x, y, z) == RLeq(y, x) /\ RLeq(z, x) /\ (x = y \/ x = z)

\* p_j + p_j*V(s + success_j) + (1 - p_j)*V(s + failure_j), V read from T
BellmanArm(T, Node, arm) ==
    LET p == Mean(Node, arm)
        Vs == E(T, Node, IF arm = 1 THEN 1 ELSE 3)[1]
        Vf == E(T, Node, IF arm = 1 THEN 2 ELSE 4)[1]
    IN  RAdd(p, RAdd(RMul(p, Vs), RMul(RAdd(RInt(1), RNeg(p)), Vf)))

BellmanValue(T, Node) == RMax(BellmanArm(T, Node, 1), BellmanArm(T, Node, 2))

\* trials remaining for the states of Previous_Node between two steps
TrialsLeft == N - j

\* ------------------------------------------------------------------ claims

\* C1: every value the backward step records for a state equals the maximum
\* over the two arms of p_j + p_j*V(s+success_j) + (1-p_j)*V(s+failure_j),
\* V being the value of the successor in the next layer's table; for
\* (1,1,1,1) with N = 2 that is 13/12.  (The code records 1 + V + V.)
C1_BellmanRecursion ==
    (pc = "pnf_loop" /\ N >= 1) =>
        \A k \in 1..pj :
            /\ Previous_Nodes[k][5] = BellmanValue(Previous_Node, NodeOf(Previous_Nodes[k]))
            /\ (NodeOf(Previous_Nodes[k]) = <<1, 1, 1, 1>> /\ N = 2)
                   => Previous_Nodes[k][5] = <<13, 12>>

\* C2: the layer f returns for n = k+1 (k pulls) has exactly C(k+3,3) rows,
\* all distinct: 1, 4, 10, 20, 35, 56, 84, 120, 165, 220 for k = 0..9
C2_LayerCount ==
    (call = "f" /\ pc = "f_return" /\ N >= 1) =>
        /\ Len(Nodes) = Choose3(N - 1)
        /\ Cardinality(NodeSet(Nodes)) = Choose3(N - 1)
        /\ N <= 10 => Len(Nodes) = <<1, 4, 10, 20, 35, 56, 84, 120, 165, 220>>[N]

C2_Witness ==
    call = "f" /\ pc = "f_return" /\ N = 10 /\ Len(Nodes) = 220

\* C3: the layer f returns holds no 4-tuple twice and is exactly the set of
\* all (a+i, b+j, c+m, d+l) with i+j+m+l = k
C3_LayerExact ==
    (call = "f" /\ pc = "f_return" /\ N >= 1) =>
        /\ NoDuplicateNodes(Nodes)
        /\ NodeSet(Nodes) = Compositions(a1, b1, a2, b2, N - 1)

\* (a+1, b+1, c, d) is reached by two pull orders and is in the layer once
C3_Witness ==
    /\ call = "f" /\ pc = "f_return" /\ N = 3
    /\ Cardinality({k \in 1..Len(Nodes) : Nodes[k] = <<a1 + 1, b1 + 1, a2, b2>>}) = 1

\* C4: every value of the terminal table is max(a1/(a1+b1), a2/(a2+b2)); for
\* (3,1,1,1) it is 3/4
C4_TerminalGreedy ==
    \A k \in 1..i :
        LET r == Final_Nodes[k] IN
            /\ IsMaxOf(r[5], Mean(NodeOf(r), 1), Mean(NodeOf(r), 2))
            /\ NodeOf(r) = <<3, 1, 1, 1>> => r[5] = <<3, 4>>

C4_Witness ==
    /\ pc = "bb_loop"
    /\ \E k \in 1..Len(Final_Nodes) : Final_Nodes[k] = <<3, 1, 1, 1, <<3, 4>>>>

\* C5: with N = 1 no backward step is performed and the returned table holds
\* only the initial state, valued max(a1/(a1+b1), a2/(a2+b2))
C5_NOneIsGreedy ==
    (call = "Bernoulli_Bandit" /\ N = 1) =>
        /\ pc \notin {"pnf_loop", "pnf_no_single_value"}
        /\ Previous_Nodes = <<>>
        /\ pc = "done" =>
              /\ Len(Previous_Node) = 1
              /\ Len(Previous_Node[1]) = 5
              /\ NodeOf(Previous_Node[1]) = <<a1, b1, a2, b2>>
              /\ IsMaxOf(Previous_Node[1][5], Frac(a1, a1 + b1), Frac(a2, a2 + b2))

C5_Witness ==
    /\ call = "Bernoulli_Bandit" /\ N = 1 /\ pc = "done"
    /\ a1 = 1 /\ b1 = 2 /\ a2 = 2 /\ b2 = 1
    /\ Previous_Node = << <<1, 2, 2, 1, <<2, 3>>>> >>

\* C6: swapping the arm labels swaps the arms' values and keeps the value:
\* in every table of a run, states (a1,b1,a2,b2) and (a2,b2,a1,b1) carry
\* the same value, and pulling arm 1 in one is worth what pulling arm 2 is
\* worth in the other; so both arms of a symmetric state (a,b,a,b) are equal.
\* The value returned for (a1,b1,a2,b2) is the one returned for (a2,b2,a1,b1).
C6_ArmSymmetry ==
    /\ (pc \in {"bb_loop", "done"}) =>
          \A k, m \in 1..Len(Previous_Node) :
              NodeOf(Previous_Node[m]) = Swap(NodeOf(Previous_Node[k]))
                  => Previous_Node[m][5] = Previous_Node[k][5]
    /\ (pc = "pnf_loop" /\ pj = 0) =>
          \A k, m \in 1..Len(Previous_Nodes) :
              LET s == NodeOf(Previous_Nodes[k])
                  t == NodeOf(Previous_Nodes[m])
              IN  (t = Swap(s) /\ SingleValued(Previous_Node, s)
                              /\ SingleValued(Previous_Node, t))
                      => NodeValue(Previous_Node, s, 1) = NodeValue(Previous_Node, t, 0)
    /\ (pc = "done" /\ N >= 1) =>
          Previous_Node[1][5] = Bernoulli_Bandit(a2, b2, a1, b1, N)[1][5]

\* a step has valued the distinct states (2,1,1,1) and (1,1,2,1) alike
C6_Witness ==
    /\ pc = "bb_loop" /\ TrialsLeft >= 2
    /\ \E k, m \in 1..Len(Previous_Node) :
          /\ NodeOf(Previous_Node[k]) = <<2, 1, 1, 1>>
          /\ NodeOf(Previous_Node[m]) = <<1, 1, 2, 1>>
          /\ Previous_Node[m][5] = Previous_Node[k][5]

\* C7: for every state s and t >= 2, the value computed for s with t trials
\* remaining is at least the value computed for s with t-1 trials remaining
C7_HorizonMonotone ==
    (pc = "bb_loop" /\ N >= 1 /\ TrialsLeft >= 2) =>
        \A k \in 1..Len(Previous_Node) :
            LET s == NodeOf(Previous_Node[k])
                shorter == Bernoulli_Bandit(s[1], s[2], s[3], s[4], TrialsLeft - 1)
            IN  RLeq(shorter[1][5], Previous_Node[k][5])

C7_Witness ==
    /\ pc = "bb_loop" /\ N >= 1 /\ TrialsLeft = 3
    /\ \E k \in 1..Len(Previous_Node) :
          LET s == NodeOf(Previous_Node[k])
              shorter == Bernoulli_Bandit(s[1], s[2], s[3], s[4], 2)
          IN  s = <<1, 2, 1, 1>> /\ RLt(shorter[1][5], Previous_Node[k][5])

\* C8: for valid input every state of the returned table carries a value
\* >= 0 and an optimal arm that is 1 or 2.  (The code returns no arm column
\* for N = 1 and records the arm as 0 or 1.)
C8_ValueAndArm ==
    (pc = "done" /\ N >= 1) =>
        \A k \in 1..Len(Previous_Node) :
            /\ RLeq(RInt(0), Previous_Node[k][5])
            /\ Len(Previous_Node[k]) >= 6
            /\ Previous_Node[k][6] \in {1, 2}

\* C9: with trials_remaining < 1 the solver and the enumerator stop before
\* enumeration: no layer and no table is produced.  (The code validates
\* nothing and returns the four successors.)
C9_InvalidInputRejected ==
    (N < 1) =>
        /\ pc \notin {"f_loop", "f_return", "bb_terminal", "bb_loop", "pnf_loop", "done"}
        /\ Nodes = <<>>
        /\ Final_Nodes = <<>>

\* C10: in every backward step, each of the four successors of the state
\* being evaluated matches exactly one row of the table passed in
C10_Closure ==
    /\ pc # "pnf_no_single_value"
    /\ (pc = "pnf_loop" /\ N >= 1 /\ pj < Len(Previous_Nodes)) =>
          \A e \in 1..4 :
              Len(E(Previous_Node, NodeOf(Previous_Nodes[pj + 1]), e)) = 1

\* a state of the second layer is evaluated against the ten rows of the third
C10_Witness ==
    /\ pc = "pnf_loop" /\ N >= 1 /\ pj >= 1
    /\ Len(Previous_Nodes) = 4 /\ Len(Previous_Node) = 10

\* a successor of the node is a row of the table (stated on the table itself)
Present(T, X) == \E m \in 1..Len(T) : NodeOf(T[m]) = X

AllPresent(T, Node) == \A e \in 1..4 : Present(T, Plus(Node, e))

OneMore(q, r) ==
    \E e \in 1..4 : r[e] = q[e] + 1 /\ \A k \in (1..4) \ {e} : r[k] = q[k]

\* number of pulls of the layer held in Nodes
LayerIndex == IF fj = 0 THEN 0 ELSE fj - 1

\* C12: from counts >= 1, every state of every layer the enumerator builds
\* has all four counts >= 1 and coordinate sum = initial sum + k in layer k,
\* and every state of a new layer is a state of the layer before it with
\* exactly one coordinate incremented by exactly 1
C12_BanditState ==
    /\ [](call = "f" =>
            \A k \in 1..Len(Nodes) :
                /\ \A e \in 1..4 : Nodes[k][e] >= 1
                /\ Nodes[k][1] + Nodes[k][2] + Nodes[k][3] + Nodes[k][4]
                     = a1 + b1 + a2 + b2 + LayerIndex)
    /\ [][(call = "f" /\ Nodes' # Nodes) =>
            IF Nodes = <<>>
            THEN \/ N = 1 /\ Nodes' = << <<a1, b1, a2, b2>> >>
                 \/ \A k \in 1..Len(Nodes') : OneMore(<<a1, b1, a2, b2>>, Nodes'[k])
            ELSE \A k \in 1..Len(Nodes') :
                    \E m \in 1..Len(Nodes) : OneMore(Nodes[m], Nodes'[k])]_vars

\* the layer of three pulls (20 states) has been built from the layer of two
C12_Witness ==
    /\ call = "f" /\ pc = "f_loop" /\ fj = 4 /\ Len(Nodes) = 20
    /\ \E k \in 1..Len(Nodes) : Nodes[k] = <<a1 + 1, b1 + 1, a2 + 1, b2>>

\* the table a second run holds at the same point of the loop, its ties
\* broken by one fixed rule
OtherRun ==
    BackwardLoopTo(a1, b1, a2, b2, FirstJ(N), j + 1,
                   TerminalTable(InsertValueCol(f(a1, b1, a2, b2, N))))

\* the state and value columns of a table
StatesAndValues(T) == LET S == [k \in 1..Len(T) |-> SubSeq(T[k], 1, 5)]
                      IN  SubSeq(S, 1, Len(T))

\* C13: whichever arm is taken on ties, every layer's table holds the same
\* states with the same values as in a run that breaks ties by a fixed rule
C13_TieIndependentValues ==
    (call = "Bernoulli_Bandit" /\ N >= 1 /\ pc \in {"bb_loop", "done"}) =>
        StatesAndValues(Previous_Node) = StatesAndValues(OtherRun)

\* a layer computed by a backward step where this run and the other run
\* recorded different arms for some state
C13_Witness ==
    /\ call = "Bernoulli_Bandit" /\ N >= 3 /\ pc = "bb_loop" /\ j < FirstJ(N)
    /\ LET Other == OtherRun
       IN  \E k \in 1..Len(Previous_Node) : Previous_Node[k][6] # Other[k][6]

\* the states of T are exactly those reached by k pulls from the input state
IsLayer(T, k) == NodeSet(T) = Compositions(a1, b1, a2, b2, k)

InBandit == call = "Bernoulli_Bandit" /\ N >= 1

\* C14 as stated: the layer given the greedy terminal values is the layer of
\* states reachable after exactly N pulls
C14_TerminalAfterNPulls ==
    (InBandit /\ pc \in {"bb_terminal", "bb_loop", "pnf_loop", "done"}) =>
        IsLayer(Final_Nodes, N)

\* C14, amended: the greedy terminal values go to the layer reached by N-1
\* pulls, f(..,N), all of them before the first backward step; the steps
\* then run for j = N-1 down to 1, j falling by exactly one per step, the
\* step for j computing the layer f(..,j) of j-1 pulls from the table of the
\* layer of j pulls, which is the table the step before it returned (the
\* terminal table for the first step)
C14_LayerOrder ==
    /\ [](InBandit =>
            /\ pc \in {"bb_terminal", "bb_loop", "pnf_loop", "done"} =>
                  IsLayer(Final_Nodes, N - 1)
            /\ pc \in {"bb_loop", "pnf_loop", "done"} =>
                  \A k \in 1..Len(Final_Nodes) :
                      Final_Nodes[k][5] = GreedyValue(Final_Nodes[k])
            /\ pc = "bb_loop" =>
                  j \in 0..(N - 1) /\ IsLayer(Previous_Node, j)
            /\ pc = "pnf_loop" =>
                  /\ j \in 1..(N - 1)
                  /\ IsLayer(Previous_Nodes, j - 1)
                  /\ IsLayer(Previous_Node, j)
            /\ pc = "done" => j = 0)
    /\ [][InBandit =>
            /\ j' # j =>
                  \/ pc = "bb_terminal" /\ j' = N - 1
                  \/ pc = "pnf_loop" /\ j' = j - 1
            /\ Previous_Node' # Previous_Node =>
                  \/ pc = "bb_terminal" /\ Previous_Node' = Final_Nodes
                  \/ /\ pc = "pnf_loop" /\ pj = Len(Previous_Nodes)
                     /\ Previous_Node' = Previous_Nodes
            /\ (pc = "pnf_loop" /\ pc' = "bb_loop") => j' = j - 1
            /\ (pc = "bb_loop" /\ pc' = "pnf_loop") =>
                  j' = j /\ Previous_Node' = Previous_Node]_vars

\* with N = 3, the second of the two steps (j = 1) is running on the table
\* of four states returned by the first (j = 2)
C14_Witness ==
    /\ InBandit /\ N = 3 /\ pc = "pnf_loop" /\ j = 1 /\ pj = 0
    /\ Len(Previous_Node) = 4 /\ Len(Final_Nodes) = 10
    /\ \A k \in 1..4 : Len(Previous_Node[k]) = 6

\* the value of an arm at a node as the objective has it at p = 1 (arm 1,
\* recorded as 1) and at p = 0 (arm 2, recorded as 0): 1 + E1 + E2 and
\* 1 + E3 + E4
ArmValue(T, Node, arm) ==
    IF arm = 1
    THEN RAdd(RInt(1), RAdd(E(T, Node, 1)[1], E(T, Node, 2)[1]))
    ELSE RAdd(RInt(1), RAdd(E(T, Node, 3)[1], E(T, Node, 4)[1]))

RECURSIVE ExpectedSum(_, _)
ExpectedSum(Node, t) ==
    IF t <= 1 THEN RMax(Mean(Node, 1), Mean(Node, 2))
    ELSE LET Arm(arm) ==
                 LET p  == Mean(Node, arm)
                     Vs == ExpectedSum(Plus(Node, IF arm = 1 THEN 1 ELSE 3), t - 1)
                     Vf == ExpectedSum(Plus(Node, IF arm = 1 THEN 2 ELSE 4), t - 1)
                 IN  RAdd(p, RAdd(RMul(p, Vs), RMul(RAdd(RInt(1), RNeg(p)), Vf)))
         IN  RMax(Arm(1), Arm(2))

\* the returned table is one row for the input state, with its two columns
ReturnsInputRow ==
    /\ j = 0
    /\ Len(Previous_Node) = 1
    /\ Len(Previous_Node[1]) = 6
    /\ NodeOf(Previous_Node[1]) = <<a1, b1, a2, b2>>
    /\ Previous_Node[1][6] \in {0, 1}

\* C16: for N >= 2, Bernoulli_Bandit returns after N-1 backward steps a
\* table of exactly one row, the input state, carrying the expected sum of
\* rewards over the N remaining trials and the choice of machine
C16_ReturnsExpectedSum ==
    (InBandit /\ N >= 2 /\ pc = "done") =>
        /\ ReturnsInputRow
        /\ Previous_Node[1][5] = ExpectedSum(<<a1, b1, a2, b2>>, N)

\* C17: a backward step only reads the table it is given: while it runs,
\* the given table and the terminal table stay as they were and the rows it
\* has already written in its own fresh table stay as written; on return
\* the caller takes the fresh table, and the terminal layer still holds the
\* values the terminal loop gave it
C17_InputUnchanged ==
    /\ [][(InBandit /\ pc = "pnf_loop") =>
            /\ Final_Nodes' = Final_Nodes
            /\ pc' # "bb_loop" => Previous_Node' = Previous_Node
            /\ pc' = "bb_loop" =>
                  Previous_Node' = Previous_Nodes /\ Previous_Nodes' = Previous_Nodes
            /\ \A k \in 1..pj : Previous_Nodes'[k] = Previous_Nodes[k]]_vars
    /\ [](InBandit /\ pc \in {"bb_loop", "pnf_loop", "done"} =>
            Final_Nodes = TerminalTable(InsertValueCol(f(a1, b1, a2, b2, N))))

\* two steps have run (N >= 3) and the terminal table is still held beside
\* the latest table
C17_Witness ==
    /\ InBandit /\ N >= 3 /\ pc = "bb_loop" /\ j = N - 3
    /\ Len(Final_Nodes) > Len(Previous_Node)
    /\ Final_Nodes = TerminalTable(InsertValueCol(f(a1, b1, a2, b2, N)))

\* C18: every value recorded for a state with t trials remaining lies in
\* 0 <= value <= t; every terminal value is strictly between 0 and 1, and
\* the value returned for N trials does not exceed N
C18_ValueBound ==
    (InBandit /\ pc \in {"bb_loop", "done"}) =>
        /\ \A k \in 1..Len(Previous_Node) :
              /\ RLeq(RInt(0), Previous_Node[k][5])
              /\ RLeq(Previous_Node[k][5], RInt(TrialsLeft))
        /\ \A k \in 1..Len(Final_Nodes) :
              /\ RLt(RInt(0), Final_Nodes[k][5])
              /\ RLt(Final_Nodes[k][5], RInt(1))
        /\ pc = "done" => RLeq(Previous_Node[1][5], RInt(N))

====
